---- MODULE Spec2Model ----
(***************************************************************************)
(* A model of the tuple-map crate (src/src/lib.rs): the methods that the   *)
(* macro impl_tuple_map! generates for homogeneous tuples of arity 1..16.  *)
(*                                                                         *)
(* A tuple (T, T, ..., T) is a sequence of items.  The macro expands every *)
(* repetition $( ... )* into one statement per element, in element order;  *)
(* the recursive operators below walk the elements the same way, one       *)
(* expanded statement per step.  Every call of a caller-supplied closure   *)
(* is appended to a log, so that the order and the number of invocations   *)
(* can be stated.                                                          *)
(***************************************************************************)
EXTENDS Integers, Sequences, FiniteSets

(***************************************************************************)
(* Bounds of the model.                                                    *)
(***************************************************************************)
\* Largest arity explored (the crate goes up to 16).
MaxN == 3
\* Width in bits of the machine integer standing for i32.
IntBits == 3
\* Largest index handed to nth beyond the largest arity.
IdxSlack == 2

(***************************************************************************)
(* Items.  The integer items are the boundary values of the machine        *)
(* integer; NaN stands for a floating-point item that is unordered with,   *)
(* and unequal to, every item including itself.                            *)
(***************************************************************************)
IntMax == 2 ^ (IntBits - 1) - 1
IntMin == 0 - 2 ^ (IntBits - 1)
InRange(x) == IntMin <= x /\ x <= IntMax
Wrap(x) == ((x - IntMin) % (2 ^ IntBits)) + IntMin

NaN == IntMax + 1
Elem == {IntMin, 0 - 1, 0, 1, IntMax}
Item == Elem \cup {NaN}

Arities == 1..MaxN
TuplesOf(S, n) == [1..n -> S]
Tuples(S) == UNION {TuplesOf(S, n) : n \in Arities}

\* Option<T>
None == <<>>
Some(x) == <<x>>

(***************************************************************************)
(* The comparisons of the item type: PartialEq::ne, PartialOrd::lt / gt.   *)
(***************************************************************************)
IsNaN(x) == x = NaN
PartialNe(a, b) == IsNaN(a) \/ IsNaN(b) \/ a # b
PartialEq(a, b) == ~PartialNe(a, b)
PartialLt(a, b) == ~IsNaN(a) /\ ~IsNaN(b) /\ a < b
PartialGt(a, b) == ~IsNaN(a) /\ ~IsNaN(b) /\ a > b

(***************************************************************************)
(* State: the caller's tuple, and the record of the last method call.      *)
(***************************************************************************)
VARIABLES
    t,                \* the caller's tuple
    overflow_checks,  \* whether the build panics on integer overflow
    op,               \* the method called last
    recv,             \* the tuple it was called on (self)
    arg,              \* its other arguments
    res,              \* what it returned
    panicked,         \* whether it panicked instead of returning
    log,              \* the closure invocations it made, in order
    kept              \* a clone the caller took earlier and still holds

vars == <<t, overflow_checks, op, recv, arg, res, panicked, log, kept>>

NoArg == <<>>

\* A tuple of items of S, in a build whose overflow checks are one of B.
InitWith(S, B) ==
    /\ t \in Tuples(S)
    /\ overflow_checks \in B
    /\ op = "new"
    /\ recv = t
    /\ arg = NoArg
    /\ res = NoArg
    /\ panicked = FALSE
    /\ log = <<>>
    /\ kept = None

\* Tuples of any items.
Init == InitWith(Item, {TRUE})
\* Tuples of machine integers, in a build with or without overflow checks.
InitInt == InitWith(Elem, BOOLEAN)

\* The method `m` was called on the caller's tuple, which it leaves alone.  The
\* caller makes one call at a time and looks at its result before the next.
Called(m, a, r) ==
    /\ op = "new"
    /\ op' = m
    /\ recv' = t
    /\ arg' = a
    /\ res' = r.ret
    /\ panicked' = FALSE
    /\ log' = r.log
    /\ UNCHANGED <<t, overflow_checks, kept>>

(***************************************************************************)
(* Predicates handed to all, any and find: the closures |x| x == v,        *)
(* |x| x != v and |x| x < v of the item type.                              *)
(***************************************************************************)
Preds == [kind : {"eq", "ne", "lt"}, v : Item]
Holds(p, x) ==
    CASE p.kind = "eq" -> PartialEq(x, p.v)
      [] p.kind = "ne" -> PartialNe(x, p.v)
      [] p.kind = "lt" -> PartialLt(x, p.v)

(***************************************************************************)
(* any, all, find, nth                                                     *)
(***************************************************************************)
RECURSIVE any_from(_, _, _, _)
any_from(s, p, k, lg) ==
    IF k > Len(s) THEN [ret |-> FALSE, log |-> lg]
    ELSE IF Holds(p, s[k]) THEN [ret |-> TRUE, log |-> Append(lg, s[k])]
    ELSE any_from(s, p, k + 1, Append(lg, s[k]))

any(s, p) == any_from(s, p, 1, <<>>)

RECURSIVE all_from(_, _, _, _)
all_from(s, p, k, lg) ==
    IF k > Len(s) THEN [ret |-> TRUE, log |-> lg]
    ELSE IF ~Holds(p, s[k]) THEN [ret |-> FALSE, log |-> Append(lg, s[k])]
    ELSE all_from(s, p, k + 1, Append(lg, s[k]))

all_noshort(s, p) ==
    [ret |-> \A k \in 1..Len(s) : Holds(p, s[k]), log |-> s]

all(s, p) == all_from(s, p, 1, <<>>)

\* The closure is handed a reference to the item s[k]; view[k] is the value it
\* reads through it: s[k] itself, or the slot behind it when the items are
\* borrows.
RECURSIVE find_from(_, _, _, _, _)
find_from(s, view, p, k, lg) ==
    IF k > Len(s) THEN [ret |-> None, at |-> 0, log |-> lg]
    ELSE IF Holds(p, view[k])
         THEN [ret |-> Some(s[k]), at |-> k, log |-> Append(lg, view[k])]
    ELSE find_from(s, view, p, k + 1, Append(lg, view[k]))

RECURSIVE find_last_from(_, _, _, _)
find_last_from(s, p, k, lg) ==
    IF k < 1 THEN [ret |-> None, at |-> 0, log |-> lg]
    ELSE IF Holds(p, s[k]) THEN [ret |-> Some(s[k]), at |-> k, log |-> Append(lg, s[k])]
    ELSE find_last_from(s, p, k - 1, Append(lg, s[k]))

find_last(s, p) == find_last_from(s, p, Len(s), <<>>)

find(s, p) == find_from(s, s, p, 1, <<>>)

RECURSIVE nth_from(_, _, _, _)
nth_from(s, i, k, cnt) ==
    IF k > Len(s) THEN None
    ELSE IF cnt = i THEN Some(s[k])
    ELSE nth_from(s, i, k + 1, cnt + 1)

nth_one_based(s, i) == nth_from(s, i, 1, 1)

nth(s, i) == nth_from(s, i, 1, 0)

Indices == 0..(MaxN + IdxSlack)

CallAny == \E p \in Preds : Called("any", p, any(t, p))
CallAll == \E p \in Preds : Called("all", p, all(t, p))
CallFind ==
    \E p \in Preds :
        LET f == find(t, p) IN
        Called("find", p, [ret |-> [some |-> f.ret, at |-> f.at], log |-> f.log])
CallNth == \E i \in Indices : Called("nth", i, [ret |-> nth(t, i), log |-> <<>>])

(***************************************************************************)
(* same, same_as                                                           *)
(***************************************************************************)
RECURSIVE same_from(_, _, _)
same_from(s, first, k) ==
    IF k > Len(s) THEN TRUE
    ELSE IF PartialNe(s[k], first) THEN FALSE
    ELSE same_from(s, first, k + 1)

\* A same that forgets the last element.
same_skip_last(s) ==
    \A k \in 2..(Len(s) - 1) : PartialEq(s[k], s[1])

same(s) == same_from(s, s[1], 2)

same_as(s, i) == same_from(s, i, 1)

CallSame == Called("same", NoArg, [ret |-> same(t), log |-> <<>>])
CallSameAs == \E i \in Item : Called("same_as", i, [ret |-> same_as(t, i), log |-> <<>>])

\* The caller drops the result of the last call.
Discard ==
    /\ op # "new"
    /\ op' = "new"
    /\ recv' = t
    /\ arg' = NoArg
    /\ res' = NoArg
    /\ panicked' = FALSE
    /\ log' = <<>>
    /\ UNCHANGED <<t, overflow_checks, kept>>

NextScan ==
    \/ CallAny \/ CallAll \/ CallFind \/ CallNth
    \/ CallSame \/ CallSameAs
    \/ Discard
SpecScan == Init /\ [][NextScan]_vars

(***************************************************************************)
(* Properties of any, all, find, nth, same and same_as (under SpecScan).   *)
(***************************************************************************)
Min(S) == CHOOSE x \in S : \A y \in S : x <= y
Matching(s, p) == {k \in 1..Len(s) : Holds(p, s[k])}
Failing(s, p) == {k \in 1..Len(s) : ~Holds(p, s[k])}
\* The elements up to and including the first one at an index in D, all of
\* them when D is empty.
UpToFirst(s, D) == SubSeq(s, 1, IF D = {} THEN Len(s) ELSE Min(D))

\* C1: all(p) is true iff p holds for every element and any(p) iff it holds
\* for some element; p is invoked on the elements in index order and on no
\* element after the first that decides the result, so k+1 times when the
\* deciding element is at index k and N times when there is none.
C1_AllAnyShortCircuit ==
    /\ op = "all" =>
          /\ res = (Failing(recv, arg) = {})
          /\ log = UpToFirst(recv, Failing(recv, arg))
    /\ op = "any" =>
          /\ res = (Matching(recv, arg) # {})
          /\ log = UpToFirst(recv, Matching(recv, arg))

\* all stopped at a failing element that is neither first nor last.
C1_Witness ==
    /\ op = "all" /\ Len(recv) = 3 /\ ~res /\ Len(log) = 2

\* C2: find(p) returns the element at the smallest index where p holds, None
\* iff there is none, and p is not invoked on any element after that index.
C2_FindLeftmost ==
    op = "find" =>
        LET M == Matching(recv, arg) IN
        /\ (res.some = None) <=> (M = {})
        /\ M # {} => res.at = Min(M) /\ res.some = Some(recv[Min(M)])
        /\ M = {} => res.at = 0
        /\ log = UpToFirst(recv, M)

\* find returned the leftmost of two matching elements, not the first element.
C2_Witness ==
    /\ op = "find" /\ res.at = 2
    /\ Cardinality(Matching(recv, arg)) >= 2

\* C3: nth(i) returns Some(t[i]), zero-based, when i < N and None when i >= N.
C3_NthInRangeOrNone ==
    op = "nth" =>
        res = IF arg < Len(recv) THEN Some(recv[arg + 1]) ELSE None

\* nth was asked for an index past the end of a tuple of arity 2.
C3_Witness ==
    /\ op = "nth" /\ Len(recv) = 2 /\ arg > 2 /\ res = None

\* C10 as stated: same() is true iff every later element compares equal to the
\* first, same_as(v) iff every element compares equal to v, and same() holds
\* exactly when same_as(t[0]) holds.
C10_SameIffSameAsFirst ==
    /\ op = "same" =>
          /\ res <=> \A k \in 2..Len(recv) : PartialEq(recv[k], recv[1])
          /\ res <=> same_as(recv, recv[1])
    /\ op = "same_as" =>
          (res <=> \A k \in 1..Len(recv) : PartialEq(recv[k], arg))

\* C10 (amended): same() is true iff every two elements at different positions
\* compare equal, equivalently iff every later element compares equal to the
\* first; same_as(v) is true iff every element compares equal to v; same()
\* holds exactly when same_as(t[0]) holds provided the arity is at least 2 or
\* t[0] compares equal to itself; on a 1-tuple whose element does not compare
\* equal to itself same() is true and same_as(t[0]) is false.
C10_SameAmended ==
    /\ op = "same" =>
          /\ res <=> \A k \in 2..Len(recv) : PartialEq(recv[k], recv[1])
          /\ res <=> \A i, j \in 1..Len(recv) : i # j => PartialEq(recv[i], recv[j])
          /\ (Len(recv) >= 2 \/ PartialEq(recv[1], recv[1])) =>
                (res <=> same_as(recv, recv[1]))
          /\ (Len(recv) = 1 /\ PartialNe(recv[1], recv[1])) =>
                (res /\ ~same_as(recv, recv[1]))
    /\ op = "same_as" =>
          (res <=> \A k \in 1..Len(recv) : PartialEq(recv[k], arg))

\* same() answered false on a tuple whose only differing element is the last.
C10_Witness ==
    /\ op = "same" /\ Len(recv) = 3 /\ ~res
    /\ PartialEq(recv[2], recv[1])

(***************************************************************************)
(* Machine-integer arithmetic of the item type: +, -, *, / and their       *)
(* assigning forms.  A result outside the width panics in a build with     *)
(* overflow checks and wraps otherwise; division by zero, and the one      *)
(* overflowing quotient IntMin / -1, panic in every build.                 *)
(***************************************************************************)
Ok(v) == [ok |-> TRUE, val |-> v]
Panic == [ok |-> FALSE, val |-> 0]
Checked(x) ==
    IF InRange(x) THEN Ok(x)
    ELSE IF overflow_checks THEN Panic
    ELSE Ok(Wrap(x))
Abs(x) == IF x < 0 THEN 0 - x ELSE x
\* Integer division truncates toward zero.
TruncDiv(a, b) ==
    IF (a < 0) = (b < 0) THEN Abs(a) \div Abs(b) ELSE 0 - (Abs(a) \div Abs(b))
IntAdd(a, b) == Checked(a + b)
IntSub(a, b) == Checked(a - b)
IntMul(a, b) == Checked(a * b)
IntDiv_unguarded(a, b) ==
    IF b = 0 THEN Ok(0) ELSE Checked(TruncDiv(a, b))
IntDiv(a, b) ==
    IF b = 0 THEN Panic
    ELSE IF a = IntMin /\ b = 0 - 1 THEN Panic
    ELSE Ok(TruncDiv(a, b))

(***************************************************************************)
(* Closures.  A closure is FnMut: it may carry state from one call to the  *)
(* next; `st` is that state, a call counter that starts at 0.              *)
(*   two arguments (zipf):                                                 *)
(*     pair  |a, b| (a, b)                                                 *)
(*     tag2  |a, b| { cnt += 1; (cnt, a, b) }                              *)
(*     add, sub, mul, div   the closures of the methods of those names     *)
(*   one argument (map):                                                   *)
(*     id    |x| x                                                         *)
(*     tag   |x| { cnt += 1; (cnt, x) }                                    *)
(*     uncurry g   |pair| g(pair.0, pair.1)                                *)
(***************************************************************************)
Returned(v, st) == [ok |-> TRUE, out |-> v, st |-> st]
Arith(r, st) == [ok |-> r.ok, out |-> r.val, st |-> st]
Apply2(g, st, a, b) ==
    CASE g.kind = "pair" -> Returned(<<a, b>>, st)
      [] g.kind = "tag2" -> Returned(<<st + 1, a, b>>, st + 1)
      [] g.kind = "add" -> Arith(IntAdd(a, b), st)
      [] g.kind = "sub" -> Arith(IntSub(a, b), st)
      [] g.kind = "mul" -> Arith(IntMul(a, b), st)
      [] g.kind = "div" -> Arith(IntDiv(a, b), st)
Apply1(f, st, x) ==
    CASE f.kind = "id" -> Returned(x, st)
      [] f.kind = "tag" -> Returned(<<st + 1, x>>, st + 1)
      [] f.kind = "uncurry" -> Apply2(f.of, st, x[1], x[2])
      [] f.kind = "clone" -> Returned(f.mem[x], st)
      [] f.kind = "scale" -> Arith(IntMul(x, f.by), st)

Mappers == {[kind |-> "id"], [kind |-> "tag"]}

(***************************************************************************)
(* Combiners handed to fold:                                               *)
(*     push  |mut v, x| { v.push(x); v }                                   *)
(*     cons  |mut v, x| { v.insert(0, x); v }                              *)
(*     nest  |acc, x| (acc, x)                                             *)
(* and, on integers, the closures that may panic:                          *)
(*     add   |sum, x| sum + x                                              *)
(*     mul   |prod, x| prod * x                                            *)
(***************************************************************************)
Folders == {"push", "cons", "nest"}
Inits == {<<>>, <<0>>}
Combine(f, acc, x) ==
    CASE f = "push" -> Append(acc, x)
      [] f = "cons" -> <<x>> \o acc
      [] f = "nest" -> <<acc, x>>
\* The call of the combiner: what it returns, unless it panics.
CombineR(f, acc, x) ==
    CASE f = "add" -> IntAdd(acc, x)
      [] f = "mul" -> IntMul(acc, x)
      [] OTHER -> Ok(Combine(f, acc, x))

(***************************************************************************)
(* fold, map                                                               *)
(***************************************************************************)
RECURSIVE fold_from(_, _, _, _, _)
fold_from(s, f, k, init, lg) ==
    IF k > Len(s) THEN [ok |-> TRUE, ret |-> init, log |-> lg]
    ELSE LET r == CombineR(f, init, s[k])
             lg2 == Append(lg, [acc |-> init, x |-> s[k]])
         IN IF ~r.ok THEN [ok |-> FALSE, ret |-> init, log |-> lg2]
            ELSE fold_from(s, f, k + 1, r.val, lg2)

\* A fold that walks the elements from the last to the first.
RECURSIVE fold_right_from(_, _, _, _, _)
fold_right_from(s, f, k, init, lg) ==
    IF k < 1 THEN [ok |-> TRUE, ret |-> init, log |-> lg]
    ELSE LET r == CombineR(f, init, s[k])
             lg2 == Append(lg, [acc |-> init, x |-> s[k]])
         IN IF ~r.ok THEN [ok |-> FALSE, ret |-> init, log |-> lg2]
            ELSE fold_right_from(s, f, k - 1, r.val, lg2)

fold_right(s, init, f) == fold_right_from(s, f, Len(s), init, <<>>)

fold(s, init, f) == fold_from(s, f, 1, init, <<>>)

\* The elements of the result tuple are evaluated left to right; a closure
\* that panics ends the call.
RECURSIVE map_from(_, _, _, _, _, _)
map_from(s, f, k, st, out, lg) ==
    IF k > Len(s) THEN [ok |-> TRUE, ret |-> out, log |-> lg]
    ELSE LET r == Apply1(f, st, s[k]) IN
         IF ~r.ok THEN [ok |-> FALSE, ret |-> out, log |-> Append(lg, s[k])]
         ELSE map_from(s, f, k + 1, r.st, Append(out, r.out), Append(lg, s[k]))

\* A map that calls the closure on the last element first.
RECURSIVE map_rev_from(_, _, _, _, _, _)
map_rev_from(s, f, k, st, out, lg) ==
    IF k < 1 THEN [ok |-> TRUE, ret |-> out, log |-> lg]
    ELSE LET r == Apply1(f, st, s[k]) IN
         IF ~r.ok THEN [ok |-> FALSE, ret |-> out, log |-> Append(lg, s[k])]
         ELSE map_rev_from(s, f, k - 1, r.st, <<r.out>> \o out, Append(lg, s[k]))

map_rev(s, f) == map_rev_from(s, f, Len(s), 0, <<>>, <<>>)

map(s, f) == map_from(s, f, 1, 0, <<>>, <<>>)

\* A call that may panic: it returns r.ret unless r.ok is false.
CalledOrPanicked(m, a, r) ==
    /\ op = "new"
    /\ op' = m
    /\ recv' = t
    /\ arg' = a
    /\ res' = IF r.ok THEN r.ret ELSE NoArg
    /\ panicked' = ~r.ok
    /\ log' = r.log
    /\ UNCHANGED <<t, overflow_checks, kept>>

CallFold ==
    \E f \in Folders, init \in Inits :
        Called("fold", [init |-> init, f |-> f], fold(t, init, f))
CallMap == \E f \in Mappers : CalledOrPanicked("map", f, map(t, f))

NextMap == CallFold \/ CallMap \/ Discard
SpecMap == Init /\ [][NextMap]_vars

(***************************************************************************)
(* Properties of fold and map (under SpecMap).                             *)
(***************************************************************************)
Reverse(s) == [k \in 1..Len(s) |-> s[Len(s) + 1 - k]]

\* C4: fold(init, f) invokes f exactly N times, once per element in index
\* order, the first time with init and each later time with the accumulator
\* the previous invocation returned, and returns what the last invocation
\* returned: f(...f(f(init, t[0]), t[1])..., t[N-1]).
C4_FoldLeft ==
    op = "fold" =>
        LET n == Len(recv) IN
        /\ Len(log) = n
        /\ \A k \in 1..n : log[k].x = recv[k]
        /\ log[1].acc = arg.init
        /\ \A k \in 1..(n - 1) :
              log[k + 1].acc = Combine(arg.f, log[k].acc, log[k].x)
        /\ res = Combine(arg.f, log[n].acc, log[n].x)
        /\ arg.f = "push" => res = arg.init \o recv
        /\ arg.f = "cons" => res = Reverse(recv) \o arg.init
        /\ (arg.f = "nest" /\ n = 2) =>
              res = <<(<<arg.init, recv[1]>>), recv[2]>>

\* fold appended three elements, not all alike, to a non-empty sequence.
C4_Witness ==
    /\ op = "fold" /\ arg.f = "push" /\ arg.init # <<>>
    /\ Len(recv) = 3 /\ recv[1] # recv[3]

\* C5: map(f) invokes f exactly once per element in index order, position i
\* of the result is what the i-th invocation returned, the result has arity
\* N, and with the identity the result equals the tuple.
C5_MapInOrder ==
    op = "map" =>
        /\ ~panicked
        /\ log = recv
        /\ Len(res) = Len(recv)
        /\ arg.kind = "id" => res = recv
        /\ arg.kind = "tag" =>
              \A i \in 1..Len(recv) : res[i] = <<i, recv[i]>>

\* map ran a closure that counts its calls over a tuple of arity 3.
C5_Witness ==
    /\ op = "map" /\ arg.kind = "tag" /\ Len(recv) = 3
    /\ res[3] = <<3, recv[3]>>

(***************************************************************************)
(* by_ref_mut.  A borrow &mut T of an element is the position of the slot  *)
(* of the caller's tuple it designates; writing through it changes that    *)
(* slot.                                                                   *)
(***************************************************************************)
by_ref_mut_rev(s) == [k \in 1..Len(s) |-> Len(s) + 1 - k]

by_ref_mut(s) == [k \in 1..Len(s) |-> k]

Deref(mem, refs) == [k \in 1..Len(refs) |-> mem[refs[k]]]

(***************************************************************************)
(* Closures handed to for_each on a tuple of borrows:                      *)
(*     set w    |x| *x = w                                                 *)
(*     spread   |x| if first { first = false; v = *x } else { *x = v }     *)
(*     scale c  |x| *x *= c                                                *)
(***************************************************************************)
Writers == {[kind |-> "set", w |-> w] : w \in Item} \cup {[kind |-> "spread"]}
ApplyMut(g, st, mem, r) ==
    CASE g.kind = "set" ->
            [ok |-> TRUE, st |-> st, mem |-> [mem EXCEPT ![r] = g.w]]
      [] g.kind = "spread" ->
            IF st = None THEN [ok |-> TRUE, st |-> Some(mem[r]), mem |-> mem]
            ELSE [ok |-> TRUE, st |-> st, mem |-> [mem EXCEPT ![r] = st[1]]]
      [] g.kind = "scale" ->
            LET m == IntMul(mem[r], g.by) IN
            IF m.ok THEN [ok |-> TRUE, st |-> st,
                          mem |-> [mem EXCEPT ![r] = m.val]]
            ELSE [ok |-> FALSE, st |-> st, mem |-> mem]

RECURSIVE for_each_from(_, _, _, _, _, _)
for_each_from(s, g, k, st, mem, lg) ==
    IF k > Len(s) THEN [ok |-> TRUE, mem |-> mem, log |-> lg]
    ELSE LET r == ApplyMut(g, st, mem, s[k]) IN
         IF ~r.ok THEN [ok |-> FALSE, mem |-> mem, log |-> Append(lg, s[k])]
         ELSE for_each_from(s, g, k + 1, r.st, r.mem, Append(lg, s[k]))

for_each(s, g, mem) == for_each_from(s, g, 1, None, mem, <<>>)

\* A call that takes the caller's tuple by &mut and leaves it as `after`.
CalledMut(m, a, r, lg, after) ==
    /\ op = "new"
    /\ op' = m
    /\ recv' = t
    /\ arg' = a
    /\ res' = r
    /\ panicked' = FALSE
    /\ log' = lg
    /\ t' = after
    /\ UNCHANGED <<overflow_checks, kept>>

CallByRefMut == CalledMut("by_ref_mut", NoArg, by_ref_mut(t), <<>>, t)

\* let (.., x, ..) = t.by_ref_mut(); *x = w;
WriteThrough ==
    \E i \in 1..Len(t), w \in Item :
        LET refs == by_ref_mut(t) IN
        CalledMut("write", [i |-> i, w |-> w], refs, <<>>,
                  [t EXCEPT ![refs[i]] = w])

\* t.by_ref_mut().for_each(g)
ForEachMut ==
    \E g \in Writers :
        LET refs == by_ref_mut(t)
            r == for_each(refs, g, t)
        IN CalledMut("for_each_mut", g, refs, r.log, r.mem)

\* if let Some(x) = t.by_ref_mut().find(|&&mut x| x == v) { *x = w }
FindMut ==
    \E v \in Item, w \in Item :
        LET refs == by_ref_mut(t)
            p == [kind |-> "eq", v |-> v]
            f == find_from(refs, Deref(t, refs), p, 1, <<>>)
        IN CalledMut("find_mut", [p |-> p, w |-> w], f.ret, f.log,
                     IF f.ret = None THEN t ELSE [t EXCEPT ![f.ret[1]] = w])

NextMut == CallByRefMut \/ WriteThrough \/ ForEachMut \/ FindMut \/ Discard
SpecMut == Init /\ [][NextMut]_vars

(***************************************************************************)
(* Properties of by_ref_mut (under SpecMut).                               *)
(***************************************************************************)
\* C6: by_ref_mut yields N borrows, borrow i designating slot i; a write of w
\* through borrow i (directly, by for_each on the borrows, or through the
\* borrow that find on the borrows returns) leaves w in slot i and every
\* slot not written through as it was; by_ref_mut itself changes no element.
C6_ByRefMutWritesSlot ==
    /\ op = "by_ref_mut" => t = recv /\ Len(res) = Len(recv)
    /\ op = "write" => t = [recv EXCEPT ![arg.i] = arg.w]
    /\ op = "for_each_mut" =>
          /\ Len(log) = Len(recv)
          /\ arg.kind = "set" => t = [k \in 1..Len(recv) |-> arg.w]
          /\ arg.kind = "spread" => t = [k \in 1..Len(recv) |-> recv[1]]
    /\ op = "find_mut" =>
          LET M == Matching(recv, arg.p) IN
          /\ M = {} => t = recv /\ res = None
          /\ M # {} => t = [recv EXCEPT ![Min(M)] = arg.w]

\* The borrow that find returned was written through: the second slot of three
\* changed and the others did not.
C6_Witness ==
    /\ op = "find_mut" /\ Len(recv) = 3
    /\ t[2] # recv[2] /\ t[1] = recv[1] /\ t[3] = recv[3]
    /\ recv[1] # recv[3]

(***************************************************************************)
(* tmax, tmin.  The accumulator is the moved element; `at` is the position *)
(* it was moved from.                                                      *)
(***************************************************************************)
RECURSIVE tmax_from(_, _, _, _)
tmax_from(s, k, acc, at) ==
    IF k > Len(s) THEN [val |-> acc, at |-> at]
    ELSE IF PartialLt(acc, s[k]) THEN tmax_from(s, k + 1, s[k], k)
    ELSE tmax_from(s, k + 1, acc, at)

\* A tmax that also replaces the accumulator by an equal element.
RECURSIVE tmax_le_from(_, _, _, _)
tmax_le_from(s, k, acc, at) ==
    IF k > Len(s) THEN [val |-> acc, at |-> at]
    ELSE IF PartialLt(acc, s[k]) \/ PartialEq(acc, s[k])
         THEN tmax_le_from(s, k + 1, s[k], k)
    ELSE tmax_le_from(s, k + 1, acc, at)

tmax_le(s) == tmax_le_from(s, 2, s[1], 1)

tmax(s) == tmax_from(s, 2, s[1], 1)

RECURSIVE tmin_from(_, _, _, _)
tmin_from(s, k, acc, at) ==
    IF k > Len(s) THEN [val |-> acc, at |-> at]
    ELSE IF PartialGt(acc, s[k]) THEN tmin_from(s, k + 1, s[k], k)
    ELSE tmin_from(s, k + 1, acc, at)

tmin(s) == tmin_from(s, 2, s[1], 1)

CallTmax == Called("tmax", NoArg, [ret |-> tmax(t), log |-> <<>>])
CallTmin == Called("tmin", NoArg, [ret |-> tmin(t), log |-> <<>>])

NextOrd == CallTmax \/ CallTmin \/ Discard
SpecOrd == Init /\ [][NextOrd]_vars

(***************************************************************************)
(* Properties of tmax and tmin (under SpecOrd).                            *)
(***************************************************************************)
\* Every two elements of the tuple are ordered.
Ordered(s) == \A k \in 1..Len(s) : ~IsNaN(s[k])

\* C7: tmax (tmin) returns an element of the tuple; no element is strictly
\* greater (less) than it; among the elements equal to it, it is the earliest;
\* an unordered comparison leaves the accumulator unchanged, so an unordered
\* first element is returned and an unordered later element never is; the
\* accumulator is replaced only by a strictly greater (less) element, so
\* every element before the returned one is strictly less (greater) than it
\* or unordered with it.
C7_TmaxTminPartialOrder ==
    /\ op = "tmax" =>
          /\ res.at \in 1..Len(recv) /\ res.val = recv[res.at]
          /\ \A k \in 1..Len(recv) : ~PartialLt(res.val, recv[k])
          /\ \A k \in 1..(res.at - 1) : ~PartialEq(recv[k], res.val)
          /\ IsNaN(recv[1]) => res.at = 1
          /\ res.at > 1 => ~IsNaN(res.val) /\ PartialLt(recv[1], res.val)
          /\ Ordered(recv) => \A k \in 1..Len(recv) : recv[k] <= res.val
    /\ op = "tmin" =>
          /\ res.at \in 1..Len(recv) /\ res.val = recv[res.at]
          /\ \A k \in 1..Len(recv) : ~PartialGt(res.val, recv[k])
          /\ \A k \in 1..(res.at - 1) : ~PartialEq(recv[k], res.val)
          /\ IsNaN(recv[1]) => res.at = 1
          /\ res.at > 1 => ~IsNaN(res.val) /\ PartialGt(recv[1], res.val)
          /\ Ordered(recv) => \A k \in 1..Len(recv) : recv[k] >= res.val

\* tmax skipped an unordered element and returned the earlier of two equal
\* greatest elements.
C7_Witness ==
    /\ op = "tmax" /\ Len(recv) = 3
    /\ IsNaN(recv[2]) /\ res.at = 1 /\ PartialEq(recv[3], recv[1])

(***************************************************************************)
(* id, zip, zipf                                                           *)
(***************************************************************************)
id(s) == s

RECURSIVE zip_from(_, _, _, _)
zip_from(s, s2, k, out) ==
    IF k > Len(s) THEN out
    ELSE zip_from(s, s2, k + 1, Append(out, <<s[k], s2[k]>>))

zip(s, other) == zip_from(s, id(other), 1, <<>>)

RECURSIVE zipf_from(_, _, _, _, _, _, _)
zipf_from(s, s2, f, k, st, out, lg) ==
    IF k > Len(s) THEN [ok |-> TRUE, ret |-> out, log |-> lg]
    ELSE LET r == Apply2(f, st, s[k], s2[k]) IN
         IF ~r.ok
         THEN [ok |-> FALSE, ret |-> out, log |-> Append(lg, <<s[k], s2[k]>>)]
         ELSE zipf_from(s, s2, f, k + 1, r.st, Append(out, r.out),
                        Append(lg, <<s[k], s2[k]>>))

\* A zipf that hands the closure its arguments the wrong way round.
RECURSIVE zipf_swapped_from(_, _, _, _, _, _, _)
zipf_swapped_from(s, s2, f, k, st, out, lg) ==
    IF k > Len(s) THEN [ok |-> TRUE, ret |-> out, log |-> lg]
    ELSE LET r == Apply2(f, st, s2[k], s[k]) IN
         IF ~r.ok
         THEN [ok |-> FALSE, ret |-> out, log |-> Append(lg, <<s2[k], s[k]>>)]
         ELSE zipf_swapped_from(s, s2, f, k + 1, r.st, Append(out, r.out),
                                Append(lg, <<s2[k], s[k]>>))

zipf_swapped(s, other, f) == zipf_swapped_from(s, id(other), f, 1, 0, <<>>, <<>>)

zipf(s, other, f) == zipf_from(s, id(other), f, 1, 0, <<>>, <<>>)

\* The items of the second tuple.
Other == {0 - 1, 0, 1}
Zippers == {[kind |-> "pair"], [kind |-> "tag2"], [kind |-> "sub"]}

CallZip ==
    \E o \in TuplesOf(Other, Len(t)) :
        Called("zip", o, [ret |-> zip(t, o), log |-> <<>>])
CallZipf ==
    \E o \in TuplesOf(Other, Len(t)), g \in Zippers :
        CalledOrPanicked("zipf", [other |-> o, f |-> g], zipf(t, o, g))

InitZip == InitWith(Elem, {TRUE})
NextZip == CallZip \/ CallZipf \/ Discard
SpecZip == InitZip /\ [][NextZip]_vars

(***************************************************************************)
(* Properties of zip and zipf (under SpecZip).                             *)
(***************************************************************************)
Uncurry(g) == [kind |-> "uncurry", of |-> g]

\* C8: position i of a.zip(b) is the pair (a[i], b[i]), so its first
\* components are a and its second components are b; a.zipf(b, f) equals
\* a.zip(b).map(|pair| f(pair.0, pair.1)), f being invoked N times in index
\* order in both (or up to the same panicking invocation in both), also for
\* an f that carries state between calls.
C8_ZipProjectionsAndZipf ==
    /\ op = "zip" =>
          /\ Len(res) = Len(recv)
          /\ [k \in 1..Len(res) |-> res[k][1]] = recv
          /\ [k \in 1..Len(res) |-> res[k][2]] = arg
    /\ op = "zipf" =>
          LET m == map(zip(recv, arg.other), Uncurry(arg.f)) IN
          /\ panicked = ~m.ok
          /\ log = m.log
          /\ ~panicked =>
                /\ res = m.ret
                /\ Len(log) = Len(recv)
                /\ \A k \in 1..Len(recv) : log[k] = <<recv[k], arg.other[k]>>
          /\ (~panicked /\ arg.f.kind = "tag2") =>
                \A k \in 1..Len(recv) : res[k] = <<k, recv[k], arg.other[k]>>

\* zipf ran a closure that counts its calls over two different tuples of
\* arity 3.
C8_Witness ==
    /\ op = "zipf" /\ arg.f.kind = "tag2" /\ Len(recv) = 3
    /\ recv # arg.other /\ res[3] = <<3, recv[3], arg.other[3]>>

(***************************************************************************)
(* sum, product, add, sub, mul, div                                        *)
(***************************************************************************)
\* The log holds the applications of += : the accumulator and the element.
RECURSIVE sum_from(_, _, _, _)
sum_from(s, k, acc, lg) ==
    IF k > Len(s) THEN [ok |-> TRUE, ret |-> acc, log |-> lg]
    ELSE LET r == IntAdd(acc, s[k])
             lg2 == Append(lg, [acc |-> acc, x |-> s[k]])
         IN IF ~r.ok THEN [ok |-> FALSE, ret |-> acc, log |-> lg2]
            ELSE sum_from(s, k + 1, r.val, lg2)

\* A sum that starts from the additive identity.
sum_from_zero(s) == sum_from(s, 1, 0, <<>>)

sum(s) == sum_from(s, 2, s[1], <<>>)

\* The log holds the applications of *= : the accumulator and the element.
RECURSIVE product_from(_, _, _, _)
product_from(s, k, acc, lg) ==
    IF k > Len(s) THEN [ok |-> TRUE, ret |-> acc, log |-> lg]
    ELSE LET r == IntMul(acc, s[k])
             lg2 == Append(lg, [acc |-> acc, x |-> s[k]])
         IN IF ~r.ok THEN [ok |-> FALSE, ret |-> acc, log |-> lg2]
            ELSE product_from(s, k + 1, r.val, lg2)

product(s) == product_from(s, 2, s[1], <<>>)

add(s, other) == zipf(s, other, [kind |-> "add"])
\* A sub that subtracts the wrong way round.
sub_swapped(s, other) == zipf(other, s, [kind |-> "sub"])
sub(s, other) == zipf(s, other, [kind |-> "sub"])
mul(s, other) == zipf(s, other, [kind |-> "mul"])
div(s, other) == zipf(s, other, [kind |-> "div"])

CallSum == CalledOrPanicked("sum", NoArg, sum(t))
CallProduct == CalledOrPanicked("product", NoArg, product(t))
CallAdd == \E o \in TuplesOf(Other, Len(t)) : CalledOrPanicked("add", o, add(t, o))
CallSub == \E o \in TuplesOf(Other, Len(t)) : CalledOrPanicked("sub", o, sub(t, o))
CallMul == \E o \in TuplesOf(Other, Len(t)) : CalledOrPanicked("mul", o, mul(t, o))
CallDiv == \E o \in TuplesOf(Other, Len(t)) : CalledOrPanicked("div", o, div(t, o))

NextArith ==
    \/ CallSum \/ CallProduct
    \/ CallAdd \/ CallSub \/ CallMul \/ CallDiv
    \/ Discard
SpecArith == InitInt /\ [][NextArith]_vars

(***************************************************************************)
(* Properties of the arithmetic methods (under SpecArith).                 *)
(***************************************************************************)
ArithOps == {"sum", "product", "add", "sub", "mul", "div"}

\* The exact (unbounded) sum and product of the first k elements.
RECURSIVE SumTo(_, _)
SumTo(s, k) == IF k = 0 THEN 0 ELSE SumTo(s, k - 1) + s[k]
RECURSIVE ProductTo(_, _)
ProductTo(s, k) == IF k = 0 THEN 1 ELSE ProductTo(s, k - 1) * s[k]

\* C9 as stated: sum, product, add, sub, mul and div always return a value
\* and never fail at runtime, also with a zero divisor element and with an
\* intermediate result outside the integer width.
C9_ArithmeticNeverFails ==
    op \in ArithOps => ~panicked

\* C9 (amended): div panics exactly when some divisor element is 0 or some
\* position divides the smallest integer by -1; sum, product, add, sub and
\* mul panic exactly when the build checks overflow and an intermediate sum
\* or product, or an elementwise sum, difference or product, falls outside
\* the integer width; in every other case the call returns a value, whose
\* integers lie within the width.
C9_ArithmeticFailsExactlyWhen ==
    LET n == Len(recv) IN
    /\ op = "div" =>
          (panicked <=> \E k \in 1..n :
                \/ arg[k] = 0
                \/ recv[k] = IntMin /\ arg[k] = 0 - 1)
    /\ op = "add" =>
          (panicked <=> overflow_checks /\ \E k \in 1..n : ~InRange(recv[k] + arg[k]))
    /\ op = "sub" =>
          (panicked <=> overflow_checks /\ \E k \in 1..n : ~InRange(recv[k] - arg[k]))
    /\ op = "mul" =>
          (panicked <=> overflow_checks /\ \E k \in 1..n : ~InRange(recv[k] * arg[k]))
    /\ op = "sum" =>
          (panicked <=> overflow_checks /\ \E k \in 1..n : ~InRange(SumTo(recv, k)))
    /\ op = "product" =>
          (panicked <=> overflow_checks /\ \E k \in 1..n : ~InRange(ProductTo(recv, k)))
    /\ (op \in {"sum", "product"} /\ ~panicked) => InRange(res)
    /\ (op \in {"add", "sub", "mul", "div"} /\ ~panicked) =>
          Len(res) = n /\ \A k \in 1..n : InRange(res[k])

\* div panicked on a zero in the second position of the divisor tuple.
C9_Witness ==
    /\ op = "div" /\ panicked /\ Len(recv) = 3
    /\ arg[1] = 1 /\ arg[2] = 0 /\ recv[1] # IntMin

\* Two integers that differ by a multiple of 2^IntBits.
SameModWidth(x, y) == (x - y) % (2 ^ IntBits) = 0
Rest(s) == SubSeq(s, 2, Len(s))

PairOps == {"add", "sub", "mul", "div"}
\* The exact (unbounded) result of the operator at one position; the quotient
\* is stated by its remainder instead.
Exact(o, a, b) ==
    CASE o = "add" -> a + b
      [] o = "sub" -> a - b
      [] o = "mul" -> a * b
\* q is a / b truncated toward zero: the remainder is smaller than b in
\* magnitude and, unless zero, has the sign of a.
IsQuotient(q, a, b) ==
    LET r == a - q * b IN
    /\ Abs(r) < Abs(b)
    /\ r = 0 \/ ((r < 0) = (a < 0))
\* What position k of the result must be, given only position k of the two
\* tuples.
PositionOk(o, r, a, b) ==
    /\ InRange(r)
    /\ o = "div" => IsQuotient(r, a, b)
    /\ o # "div" => SameModWidth(r, Exact(o, a, b))
    /\ (o # "div" /\ overflow_checks) => r = Exact(o, a, b)
\* The operator panics at a position.
PositionPanics(o, a, b) ==
    IF o = "div" THEN b = 0 \/ (a = IntMin /\ b = 0 - 1)
    ELSE overflow_checks /\ ~InRange(Exact(o, a, b))

\* C12 as stated: for every two same-arity tuples of integers, the divisor's
\* elements non-zero for div, add, sub, mul and div return the N-tuple whose
\* position i is a[i] + b[i], a[i] - b[i], a[i] * b[i], a[i] / b[i].
C12_ElementwiseAlwaysReturned ==
    (op \in PairOps /\ (op = "div" => \A k \in 1..Len(arg) : arg[k] # 0)) =>
        /\ ~panicked
        /\ Len(res) = Len(recv)
        /\ \A k \in 1..Len(recv) : PositionOk(op, res[k], recv[k], arg[k])

\* C12 (amended): add, sub, mul and div return a tuple exactly when the
\* operator panics at no position (div: a zero divisor element or the
\* smallest integer divided by -1; the others: a result outside the integer
\* width in a build with overflow checks) and panic otherwise; the tuple
\* returned has arity N and its position i is a[i] + b[i], a[i] - b[i],
\* a[i] * b[i], a[i] / b[i] in the arithmetic of the machine integer (wrapped
\* without overflow checks, the quotient truncated toward zero), with a's
\* element on the left and b's on the right, a function of position i of the
\* two tuples alone and equal to a.zipf(b, op).
C12_ElementwiseWhenReturned ==
    op \in PairOps =>
        LET n == Len(recv)
            z == zipf(recv, arg, [kind |-> op])
        IN
        /\ panicked <=> \E k \in 1..n : PositionPanics(op, recv[k], arg[k])
        /\ panicked = ~z.ok
        /\ ~panicked =>
              /\ res = z.ret
              /\ Len(res) = n
              /\ \A k \in 1..n : PositionOk(op, res[k], recv[k], arg[k])

\* sub returned the differences of two tuples of arity 3, which are not the
\* differences the other way round.
C12_Witness ==
    /\ op = "sub" /\ ~panicked /\ Len(recv) = 3
    /\ res[2] = recv[2] - arg[2] /\ res[2] # arg[2] - recv[2]
    /\ recv[1] # recv[3]

(***************************************************************************)
(* cloned: the tuple of borrows of by_ref, each borrow cloned.             *)
(***************************************************************************)
\* A by_ref that borrows the slots in reverse.
by_ref_rev(s) == [k \in 1..Len(s) |-> Len(s) + 1 - k]

\* by_ref: borrow k is the address of slot k.
by_ref(s) == [k \in 1..Len(s) |-> k]

\* self.by_ref().map(|x| x.clone()): the closure reads the slot of self the
\* borrow points to and returns a copy of the value.
cloned(s) == map(by_ref(s), [kind |-> "clone", mem |-> s])

\* The factors c of the closures |x| x * c and |x| *x *= c.
Factors == {3, 0 - 1}
Scalers == {[kind |-> "scale", by |-> c] : c \in Factors}
\* Closures that write through the borrows of by_ref_mut.
Mutators == Scalers \cup {[kind |-> "set", w |-> 0]}

CallCloned == CalledOrPanicked("cloned", NoArg, cloned(t))

\* let b = t.cloned();
KeepClone ==
    LET c == cloned(t) IN
    /\ op = "new" /\ kept = None
    /\ op' = "let_cloned"
    /\ recv' = t
    /\ arg' = NoArg
    /\ res' = c.ret
    /\ panicked' = FALSE
    /\ log' = c.log
    /\ kept' = Some([val |-> c.ret, of |-> t, g |-> [kind |-> "id"]])
    /\ UNCHANGED <<t, overflow_checks>>

\* let b = t.cloned().map(g);
KeepCloneMapped ==
    \E g \in Scalers :
        LET m == map(cloned(t).ret, g) IN
        /\ op = "new" /\ kept = None
        /\ op' = "let_cloned_map"
        /\ recv' = t
        /\ arg' = g
        /\ res' = IF m.ok THEN m.ret ELSE NoArg
        /\ panicked' = ~m.ok
        /\ log' = m.log
        /\ kept' = IF m.ok THEN Some([val |-> m.ret, of |-> t, g |-> g])
                    ELSE kept
        /\ UNCHANGED <<t, overflow_checks>>

\* t.by_ref_mut().for_each(g), g a closure that may panic part-way: the
\* slots written before the panic stay written.
ForEachInPlace ==
    \E g \in Mutators :
        LET refs == by_ref_mut(t)
            r == for_each(refs, g, t)
        IN
        /\ op = "new"
        /\ op' = "for_each_mut"
        /\ recv' = t
        /\ arg' = g
        /\ res' = refs
        /\ panicked' = ~r.ok
        /\ log' = r.log
        /\ t' = r.mem
        /\ UNCHANGED <<overflow_checks, kept>>

NextClone ==
    CallCloned \/ KeepClone \/ KeepCloneMapped \/ ForEachInPlace \/ Discard
SpecClone == InitInt /\ [][NextClone]_vars

\* The value |x| x * c gives on x when it returns.
IsScaled(y, x, c) ==
    /\ InRange(y)
    /\ SameModWidth(y, x * c)
    /\ overflow_checks => y = x * c

\* C13: t.cloned() returns a new tuple equal to t element by element in the
\* same order and leaves t unchanged; a clone taken earlier still equals the
\* tuple as it was when taken (for a clone transformed by map(g): g of each
\* of its elements, in order) whatever was written to t through by_ref_mut
\* since; and applying g in place to every element of t and then cloning
\* gives the tuple that transforming a clone of t with map(g) gave.
C13_ClonedIndependentCopy ==
    /\ op \in {"cloned", "let_cloned"} =>
          /\ ~panicked
          /\ Len(res) = Len(recv)
          /\ \A k \in 1..Len(recv) : res[k] = recv[k]
          /\ t = recv
    /\ op = "let_cloned" => kept = Some([val |-> recv, of |-> recv,
                                          g |-> [kind |-> "id"]])
    /\ kept # None =>
          LET b == kept[1] IN
          /\ Len(b.val) = Len(b.of)
          /\ b.g.kind = "id" => b.val = b.of
          /\ b.g.kind = "scale" =>
                \A k \in 1..Len(b.of) : IsScaled(b.val[k], b.of[k], b.g.by)
    /\ (/\ op = "for_each_mut" /\ ~panicked
        /\ kept # None /\ kept[1].of = recv /\ kept[1].g = arg) =>
          LET c == cloned(t) IN c.ok /\ c.ret = kept[1].val

\* A clone of a tuple of arity 3 was transformed by map(|x| x * c) and kept,
\* then the tuple was changed in place by |x| *x *= c: it now differs from
\* what it was and its clone is the kept tuple.
C13_Witness ==
    /\ op = "for_each_mut" /\ ~panicked
    /\ kept # None /\ kept[1].of = recv /\ kept[1].g = arg
    /\ Len(t) = 3 /\ t # recv /\ t[1] # t[2]
    /\ cloned(t).ret = kept[1].val

====
